---- MODULE Spec2Model ----
(***************************************************************************)
(* The game session controller of the chess interface (App component),     *)
(* its AI move orchestration, and the rules-engine operations it calls.    *)
(*                                                                         *)
(* A Chess object is a record: the six FEN fields plus the move history    *)
(* the object has accumulated since it was constructed.  Squares are       *)
(* numbered 0..63, a1 = 0, h1 = 7, a8 = 56, h8 = 63.                       *)
(***************************************************************************)
EXTENDS Integers, Sequences, FiniteSets, TLC

\* ------------------------------------------------------------------ bounds

\* Accepted moves are capped at this many plies from the starting position.
MaxPly == 4

\* Direct calls of makeMove on the knights are capped at this many plies,
\* one past the hundred half moves of the fifty-move rule.
MaxShufflePly == 101

\* ------------------------------------------------------------- board basics

Squares == 0 .. 63

Sq(f, r) == 8 * (r - 1) + (f - 1)

FileOf(s) == s % 8

RankOf(s) == s \div 8

OnBoard(f, r) == f >= 0 /\ f <= 7 /\ r >= 0 /\ r <= 7

At(f, r) == 8 * r + f

NoSquare == 0 - 1

PieceColor == {"w", "b"}

PieceType == {"p", "n", "b", "r", "q", "k"}

Pc(t, c) == [type |-> t, color |-> c]

NoPiece == [type |-> "-", color |-> "-"]

Opp(c) == IF c = "w" THEN "b" ELSE "w"

BackRank == <<"r", "n", "b", "q", "k", "b", "n", "r">>

StartBoard ==
  [s \in Squares |->
     CASE RankOf(s) = 0 -> Pc(BackRank[FileOf(s) + 1], "w")
       [] RankOf(s) = 1 -> Pc("p", "w")
       [] RankOf(s) = 6 -> Pc("p", "b")
       [] RankOf(s) = 7 -> Pc(BackRank[FileOf(s) + 1], "b")
       [] OTHER -> NoPiece]

\* new Chess(): the standard starting position, no history.
NewChess ==
  [board |-> StartBoard, turn |-> "w", castling |-> {"K", "Q", "k", "q"},
   ep |-> NoSquare, half |-> 0, full |-> 1, hist |-> <<>>]

\* game.fen(): the six FEN fields; the object's history is not part of it.
Fen(g) ==
  [board |-> g.board, turn |-> g.turn, castling |-> g.castling,
   ep |-> g.ep, half |-> g.half, full |-> g.full]

\* new Chess(fen): a fresh object on the position, with an empty history.
Load(fen) ==
  [board |-> fen.board, turn |-> fen.turn, castling |-> fen.castling,
   ep |-> fen.ep, half |-> fen.half, full |-> fen.full, hist |-> <<>>]

\* game.get(square)
Get(g, s) == g.board[s]

\* Plies made from the starting position, read off the FEN counters.
Ply(g) == 2 * (g.full - 1) + (IF g.turn = "b" THEN 1 ELSE 0)

\* ------------------------------------------------------------------ attacks

KnightSteps ==
  {<<1, 2>>, <<2, 1>>, <<2, 0 - 1>>, <<1, 0 - 2>>,
   <<0 - 1, 0 - 2>>, <<0 - 2, 0 - 1>>, <<0 - 2, 1>>, <<0 - 1, 2>>}

RookDirs == {<<1, 0>>, <<0 - 1, 0>>, <<0, 1>>, <<0, 0 - 1>>}

BishopDirs == {<<1, 1>>, <<1, 0 - 1>>, <<0 - 1, 1>>, <<0 - 1, 0 - 1>>}

KingSteps == RookDirs \cup BishopDirs

\* How far a slider on (f, r) gets in direction d: the number of steps to
\* the first occupied square, or to the last square of the board.
Reach(b, f, r, d) ==
  LET hit == {k \in 1 .. 7 : /\ OnBoard(f + k * d[1], r + k * d[2])
                             /\ b[At(f + k * d[1], r + k * d[2])] # NoPiece}
  IN IF hit = {}
       THEN Cardinality({k \in 1 .. 7 : OnBoard(f + k * d[1], r + k * d[2])})
       ELSE CHOOSE k \in hit : \A j \in hit : k <= j

\* The squares a slider on (f, r) reaches in direction d: the empty ones and
\* the first occupied one.
Ray(b, f, r, d) ==
  {At(f + k * d[1], r + k * d[2]) : k \in 1 .. Reach(b, f, r, d)}

StepTargets(s, steps) ==
  {At(FileOf(s) + d[1], RankOf(s) + d[2]) :
     d \in {e \in steps : OnBoard(FileOf(s) + e[1], RankOf(s) + e[2])}}

PawnDir(c) == IF c = "w" THEN 1 ELSE 0 - 1

\* The sliders that move in direction d.
SliderTypes(d) == IF d[1] = 0 \/ d[2] = 0 THEN {"r", "q"} ELSE {"b", "q"}

\* Whether a piece of color by attacks square s on board b.
Attacked(b, s, by) ==
  \/ \E t \in StepTargets(s, KnightSteps) : b[t] = Pc("n", by)
  \/ \E t \in StepTargets(s, KingSteps) : b[t] = Pc("k", by)
  \/ \E df \in {0 - 1, 1} :
       /\ OnBoard(FileOf(s) + df, RankOf(s) - PawnDir(by))
       /\ b[At(FileOf(s) + df, RankOf(s) - PawnDir(by))] = Pc("p", by)
  \/ \E d \in KingSteps :
       \E t \in Ray(b, FileOf(s), RankOf(s), d) :
         b[t].color = by /\ b[t].type \in SliderTypes(d)

KingSquare(b, c) == CHOOSE s \in Squares : b[s] = Pc("k", c)

InCheckOn(b, c) == Attacked(b, KingSquare(b, c), Opp(c))

\* game.isCheck()
IsCheck(g) == InCheckOn(g.board, g.turn)

\* -------------------------------------------------------------------- moves

\* A move as the engine reports it (verbose form).
Mv(from, to, piece, color, captured, promotion, flag) ==
  [from |-> from, to |-> to, piece |-> piece, color |-> color,
   captured |-> captured, promotion |-> promotion, flag |-> flag]

NoMove == Mv(NoSquare, NoSquare, "-", "-", "-", "-", "-")

Promotions == {"q", "r", "b", "n"}

LastRank(c) == IF c = "w" THEN 7 ELSE 0

PawnRank(c) == IF c = "w" THEN 1 ELSE 6

HomeRank(c) == IF c = "w" THEN 0 ELSE 7

\* A pawn's arrival on square t: four promotion moves on the last rank,
\* one plain move elsewhere.
PawnArrivals(s, t, c, captured, flag) ==
  {Mv(s, t, "p", c, captured, pr, flag) :
     pr \in IF RankOf(t) = LastRank(c) THEN Promotions ELSE {"-"}}

\* The forward moves of the pawn on s: n squares ahead, all n of them empty.
PawnPushes(g, s) ==
  UNION {PawnArrivals(s, At(FileOf(s), RankOf(s) + n * PawnDir(g.turn)),
                      g.turn, "-", IF n = 2 THEN "b" ELSE "n") :
           n \in {k \in {1, 2} :
                    /\ k = 2 => RankOf(s) = PawnRank(g.turn)
                    /\ \A j \in 1 .. k :
                         /\ OnBoard(FileOf(s), RankOf(s) + j * PawnDir(g.turn))
                         /\ g.board[At(FileOf(s), RankOf(s) + j * PawnDir(g.turn))]
                              = NoPiece}}

\* The capture of the pawn on s onto square t: of the piece there, or en
\* passant of the pawn that has just passed t.
PawnTake(g, s, t) ==
  IF g.board[t].color = Opp(g.turn)
    THEN PawnArrivals(s, t, g.turn, g.board[t].type, "c")
  ELSE IF t = g.ep THEN {Mv(s, t, "p", g.turn, "p", "-", "e")}
  ELSE {}

PawnMoves(g, s) ==
  PawnPushes(g, s)
    \cup UNION {PawnTake(g, s, At(FileOf(s) + df, RankOf(s) + PawnDir(g.turn))) :
                  df \in {e \in {0 - 1, 1} :
                            OnBoard(FileOf(s) + e, RankOf(s) + PawnDir(g.turn))}}

\* A piece's move to target t: a capture when t is occupied.
PieceArrival(b, s, t, p, c) ==
  Mv(s, t, p, c, IF b[t] = NoPiece THEN "-" ELSE b[t].type, "-",
     IF b[t] = NoPiece THEN "n" ELSE "c")

SlideDirs(p) ==
  CASE p = "r" -> RookDirs [] p = "b" -> BishopDirs [] p = "q" -> KingSteps
    [] OTHER -> {}

StepDirs(p) ==
  CASE p = "n" -> KnightSteps [] p = "k" -> KingSteps [] OTHER -> {}

\* The squares a piece of type p on s moves to or attacks.
Targets(b, s, p) ==
  StepTargets(s, StepDirs(p))
    \cup UNION {Ray(b, FileOf(s), RankOf(s), d) : d \in SlideDirs(p)}

\* Castling to the king's side ("k") or the queen's ("q"): the files that
\* must be empty, the files the king crosses, and the king's target file.
CastleEmpty(side) == IF side = "k" THEN {5, 6} ELSE {1, 2, 3}

CastlePath(side) == IF side = "k" THEN {4, 5, 6} ELSE {4, 3, 2}

CastleFile(side) == IF side = "k" THEN 6 ELSE 2

CastleRight(side, c) ==
  CASE side = "k" /\ c = "w" -> "K" [] side = "q" /\ c = "w" -> "Q"
    [] side = "k" /\ c = "b" -> "k" [] OTHER -> "q"

\* The castling moves of the king on s.
CastleMoves(g, s) ==
  {Mv(s, At(CastleFile(side), HomeRank(g.turn)), "k", g.turn, "-", "-", side) :
     side \in {x \in {"k", "q"} :
                 /\ s = At(4, HomeRank(g.turn))
                 /\ CastleRight(x, g.turn) \in g.castling
                 /\ \A f \in CastleEmpty(x) :
                      g.board[At(f, HomeRank(g.turn))] = NoPiece
                 /\ \A f \in CastlePath(x) :
                      ~Attacked(g.board, At(f, HomeRank(g.turn)), Opp(g.turn))}}

\* The moves of the piece on s before the own-king-safety filter.
PseudoFrom(g, s) ==
  CASE g.board[s].color # g.turn -> {}
    [] g.board[s].type = "p" -> PawnMoves(g, s)
    [] OTHER ->
         {PieceArrival(g.board, s, t, g.board[s].type, g.turn) :
            t \in {u \in Targets(g.board, s, g.board[s].type) :
                     g.board[u].color # g.turn}}
         \cup (IF g.board[s].type = "k" THEN CastleMoves(g, s) ELSE {})

\* The second square a move empties: the pawn taken en passant, the rook's
\* corner when castling, and no other than the origin otherwise.
AlsoEmptied(m) ==
  CASE m.flag = "e" -> At(FileOf(m.to), RankOf(m.from))
    [] m.flag = "k" -> At(7, RankOf(m.from))
    [] m.flag = "q" -> At(0, RankOf(m.from))
    [] OTHER -> m.from

\* Where the rook lands when the king castles (the origin otherwise, which
\* is emptied after).
RookLanding(m) ==
  CASE m.flag = "k" -> At(5, RankOf(m.from))
    [] m.flag = "q" -> At(3, RankOf(m.from))
    [] OTHER -> m.from

\* The board after move m.
ApplyBoard(b, m) ==
  [b EXCEPT ![AlsoEmptied(m)] = NoPiece,
            ![RookLanding(m)] = Pc("r", m.color),
            ![m.from] = NoPiece,
            ![m.to] = Pc(IF m.promotion # "-" THEN m.promotion ELSE m.piece,
                         m.color)]

\* game.moves({square, verbose: true}): the legal moves of the piece on s.
MovesFrom(g, s) ==
  {m \in PseudoFrom(g, s) : ~InCheckOn(ApplyBoard(g.board, m), g.turn)}

\* game.moves({verbose: true}): every legal move of the side to move.
Moves(g) ==
  UNION {MovesFrom(g, s) : s \in {u \in Squares : g.board[u].color = g.turn}}

HasMove(g) ==
  \E s \in Squares : g.board[s].color = g.turn /\ MovesFrom(g, s) # {}

\* The castling rights a move from or to square s takes away.
RightsLost(s) ==
  CASE s = At(4, 0) -> {"K", "Q"} [] s = At(7, 0) -> {"K"}
    [] s = At(0, 0) -> {"Q"} [] s = At(4, 7) -> {"k", "q"}
    [] s = At(7, 7) -> {"k"} [] s = At(0, 7) -> {"q"} [] OTHER -> {}

\* The Chess object after it has made legal move m: every FEN field is
\* advanced and m, with the position it was made in, is appended to the
\* object's history.
Play(g, m) ==
  [board |-> ApplyBoard(g.board, m),
   turn |-> Opp(g.turn),
   castling |-> (g.castling \ RightsLost(m.from)) \ RightsLost(m.to),
   ep |-> IF m.flag = "b"
            THEN At(FileOf(m.from), RankOf(m.from) + PawnDir(m.color))
            ELSE NoSquare,
   half |-> IF m.piece = "p" \/ m.captured # "-" THEN 0 ELSE g.half + 1,
   full |-> IF m.color = "b" THEN g.full + 1 ELSE g.full,
   hist |-> Append(g.hist, [move |-> m, prev |-> Fen(g)])]

\* The object with its last history entry e taken back.
TakeBack(g, e) ==
  [board |-> e.prev.board, turn |-> e.prev.turn,
   castling |-> e.prev.castling, ep |-> e.prev.ep,
   half |-> e.prev.half, full |-> e.prev.full,
   hist |-> SubSeq(g.hist, 1, Len(g.hist) - 1)]

\* gameCopy.undo(): takes back the last move of the object's own history;
\* with an empty history it changes nothing (and returns null).
Undo(g) == IF g.hist = <<>> THEN g ELSE TakeBack(g, g.hist[Len(g.hist)])

\* game.history({verbose: true}): the moves the object has made, in order.
History(g) == [i \in 1 .. Len(g.hist) |-> g.hist[i].move]

\* ---------------------------------------------------------------- game end

\* game.isCheckmate()
IsCheckmate(g) == IsCheck(g) /\ ~HasMove(g)

\* game.isStalemate()
IsStalemate(g) == ~IsCheck(g) /\ ~HasMove(g)

SquareShade(s) == (FileOf(s) + RankOf(s)) % 2

\* The squares that hold a piece other than a king.
Men(b) == {s \in Squares : b[s] # NoPiece /\ b[s].type # "k"}

\* Bare kings, king and one minor piece, or only bishops that all stand on
\* squares of one shade.
Insufficient(b, men) ==
  \/ men = {}
  \/ Cardinality(men) = 1 /\ \A s \in men : b[s].type \in {"b", "n"}
  \/ /\ \A s \in men : b[s].type = "b"
     /\ \A s, t \in men : SquareShade(s) = SquareShade(t)

\* game.isInsufficientMaterial()
IsInsufficientMaterial(g) == Insufficient(g.board, Men(g.board))

\* What repetition compares: the FEN without its two move counters.
PositionKey(fen) == <<fen.board, fen.turn, fen.castling, fen.ep>>

\* game.isThreefoldRepetition(): the object counts the positions it has seen
\* since it was constructed, the constructed one included.
IsThreefoldRepetition(g) ==
  Cardinality({i \in 1 .. Len(g.hist) :
                 PositionKey(g.hist[i].prev) = PositionKey(Fen(g))}) + 1 >= 3

\* The draws that leave the side to move with legal moves: the fifty-move
\* rule (a hundred half moves), insufficient material and repetition.
IsRuleDraw(g) ==
  g.half >= 100 \/ IsInsufficientMaterial(g) \/ IsThreefoldRepetition(g)

\* game.isDraw()
IsDraw(g) == IsRuleDraw(g) \/ IsStalemate(g)

\* game.isGameOver(): checkmate, stalemate or a draw, that is, no legal move
\* or a draw by rule.
IsGameOver(g) == IsRuleDraw(g) \/ ~HasMove(g)

\* ------------------------------------------------------------ move() input

\* What makeMove is handed: an object {from, to, promotion} or a notation
\* string.  A notation string is held as what its text spells: the piece
\* letter, an optional origin file and rank, the capture mark, the target
\* square and the promotion piece.  A string that spells no move at all
\* ("Zz9") is kind "bad"; kind "empty" is the empty string and kind
\* "missing" an absent field (undefined).
Data(kind, from, to, promotion, piece, file, rank, capture) ==
  [kind |-> kind, from |-> from, to |-> to, promotion |-> promotion,
   piece |-> piece, file |-> file, rank |-> rank, capture |-> capture]

ObjMove(from, to, promotion) ==
  Data("obj", from, to, promotion, "-", NoSquare, NoSquare, FALSE)

SanText(piece, file, rank, capture, to, promotion) ==
  Data("san", NoSquare, to, promotion, piece, file, rank, capture)

BadText == Data("bad", NoSquare, NoSquare, "-", "-", NoSquare, NoSquare, FALSE)

EmptyText ==
  Data("empty", NoSquare, NoSquare, "-", "-", NoSquare, NoSquare, FALSE)

MissingField ==
  Data("missing", NoSquare, NoSquare, "-", "-", NoSquare, NoSquare, FALSE)

NoData == Data("none", NoSquare, NoSquare, "-", "-", NoSquare, NoSquare, FALSE)

\* The notation of move m when rivals are the other legal moves of a piece
\* of its type to its square: the origin file of a capturing pawn, and for a
\* piece the origin file, rank or both as the rivals require.
Notation(m, sameFile, sameRank, alone) ==
  SanText(m.piece,
          IF m.piece = "p"
            THEN (IF m.captured # "-" THEN FileOf(m.from) ELSE NoSquare)
          ELSE IF ~alone /\ (~sameFile \/ sameRank) THEN FileOf(m.from)
          ELSE NoSquare,
          IF m.piece # "p" /\ ~alone /\ sameFile THEN RankOf(m.from)
          ELSE NoSquare,
          m.captured # "-", m.to, m.promotion)

Rivals(ms, m) ==
  {x \in ms : x.piece = m.piece /\ x.to = m.to /\ x.from # m.from}

\* The notation the engine writes for move m among the legal moves ms
\* (an entry of game.moves()).
SanAmong(ms, m) ==
  Notation(m,
           \E x \in Rivals(ms, m) : FileOf(x.from) = FileOf(m.from),
           \E x \in Rivals(ms, m) : RankOf(x.from) = RankOf(m.from),
           Rivals(ms, m) = {})

\* The squares whose piece input d may name.
Origins(g, d) ==
  CASE d.kind = "obj" -> {d.from} \cap Squares
    [] d.kind = "san" ->
         {u \in Squares : /\ g.board[u] = Pc(d.piece, g.turn)
                          /\ d.file \in {NoSquare, FileOf(u)}
                          /\ d.rank \in {NoSquare, RankOf(u)}}
    [] OTHER -> {}

\* Whether legal move m is the one input d names.
Fits(m, d) ==
  /\ m.to = d.to
  /\ IF d.kind = "obj"
       THEN m.promotion = "-" \/ m.promotion = d.promotion
       ELSE m.promotion = d.promotion /\ (d.capture => m.captured # "-")

\* The legal moves of g that input d names.
Matching(g, d) ==
  {m \in UNION {MovesFrom(g, s) : s \in Origins(g, d)} : Fits(m, d)}

\* The answer of move(): the one move of ms, or a failure (null or a throw)
\* when the input named no legal move, or more than one.
Answer(ms) ==
  [ok |-> Cardinality(ms) = 1,
   move |-> IF Cardinality(ms) = 1 THEN CHOOSE m \in ms : TRUE ELSE NoMove]

\* gameCopy.move(moveData)
MoveOf(g, d) == Answer(Matching(g, d))

\* The place of a square in the engine's scan of the board, a8 first.
ScanOrder(s) == 8 * (7 - RankOf(s)) + FileOf(s)

MoveOrder(m) ==
  512 * ScanOrder(m.from) + 8 * ScanOrder(m.to)
    + (CASE m.promotion = "q" -> 1 [] m.promotion = "r" -> 2
         [] m.promotion = "b" -> 3 [] m.promotion = "n" -> 4 [] OTHER -> 0)

\* The entry at index i, counted from 0, of the legal moves ms in the
\* engine's order.
Nth(ms, i) ==
  CHOOSE m \in ms : Cardinality({x \in ms : MoveOrder(x) < MoveOrder(m)}) = i

\* randomMoves[Math.floor(Math.random() * randomMoves.length)], as the
\* notation string game.moves() holds there; random is Math.random() in
\* hundredths.
RandomOf(ms, random) ==
  SanAmong(ms, Nth(ms, (random * Cardinality(ms)) \div 100))

\* ---------------------------------------------------------------- App state

VARIABLES
  game,             \* useState(new Chess())
  selectedSquare,   \* string | null (NoSquare)
  validMoves,       \* the squares held in the validMoves array
  isAiThinking,
  aiAnalysis,       \* string | null
  capturedByWhite,
  capturedByBlack,
  tasks,            \* triggerAiMove calls that have not run to their end
  last              \* the handler that ran last, its input and its outcome

app == <<game, selectedSquare, validMoves, isAiThinking, aiAnalysis,
         capturedByWhite, capturedByBlack>>

vars == <<game, selectedSquare, validMoves, isAiThinking, aiAnalysis,
          capturedByWhite, capturedByBlack, tasks, last>>

NullText == "null"

AnalyzingText == "Analyzing board state..."

FallbackText == "AI suggested an illegal move. Fallback logic triggered."

NoMoveText == "AI couldn't find a move."

ErrorText == "Error communicating with AI."

ApologyText == "I couldn't calculate a move right now."

Ran(op, arg, ok) == [op |-> op, arg |-> arg, ok |-> ok]

Init ==
  /\ game = NewChess
  /\ selectedSquare = NoSquare
  /\ validMoves = {}
  /\ isAiThinking = FALSE
  /\ aiAnalysis = NullText
  /\ capturedByWhite = <<>>
  /\ capturedByBlack = <<>>
  /\ tasks = <<>>
  /\ last = Ran("init", NoData, TRUE)

\* ----------------------------------------------------------------- handlers

\* handleCapture with the two ledgers exchanged.
HandleCaptureSwapped(move) ==
  IF move.captured # "-"
    THEN IF move.color = "w"
           THEN /\ capturedByBlack' =
                     Append(capturedByBlack,
                            Pc(move.captured, IF move.color = "w" THEN "b" ELSE "w"))
                /\ UNCHANGED capturedByWhite
           ELSE /\ capturedByWhite' =
                     Append(capturedByWhite,
                            Pc(move.captured, IF move.color = "w" THEN "b" ELSE "w"))
                /\ UNCHANGED capturedByBlack
    ELSE UNCHANGED <<capturedByWhite, capturedByBlack>>

\* handleCapture(move): the ledgers after the move.
HandleCapture(move) ==
  IF move.captured # "-"
    THEN IF move.color = "w"
           THEN /\ capturedByWhite' =
                     Append(capturedByWhite,
                            Pc(move.captured, IF move.color = "w" THEN "b" ELSE "w"))
                /\ UNCHANGED capturedByBlack
           ELSE /\ capturedByBlack' =
                     Append(capturedByBlack,
                            Pc(move.captured, IF move.color = "w" THEN "b" ELSE "w"))
                /\ UNCHANGED capturedByWhite
    ELSE UNCHANGED <<capturedByWhite, capturedByBlack>>

\* The copy after the engine's answer r: moved on when r is a move.
Moved(gameCopy, r) ==
  [ok |-> r.ok, move |-> r.move,
   gameCopy |-> IF r.ok THEN Play(gameCopy, r.move) ELSE gameCopy]

\* The try block of makeMove(moveData), created in the render that held
\* Chess object cg: the copy of the game, the engine's answer, the copy
\* after the move.
Attempt(cg, moveData) ==
  Moved(Load(Fen(cg)), MoveOf(Load(Fen(cg)), moveData))

\* makeMove without its setValidMoves([]) call.
CommitKeepingValidMoves(a) ==
  IF a.ok
    THEN /\ game' = a.gameCopy
         /\ HandleCapture(a.move)
         /\ selectedSquare' = NoSquare
         /\ UNCHANGED validMoves
    ELSE UNCHANGED <<game, capturedByWhite, capturedByBlack,
                     selectedSquare, validMoves>>

\* makeMove without its setGame call.
CommitWithoutSetGame(a) ==
  IF a.ok
    THEN /\ HandleCapture(a.move)
         /\ selectedSquare' = NoSquare
         /\ validMoves' = {}
         /\ UNCHANGED game
    ELSE UNCHANGED <<game, capturedByWhite, capturedByBlack,
                     selectedSquare, validMoves>>

\* makeMove clearing the selection whether or not the move was made.
CommitClearing(a) ==
  /\ selectedSquare' = NoSquare
  /\ validMoves' = {}
  /\ IF a.ok
       THEN /\ game' = a.gameCopy
            /\ HandleCapture(a.move)
       ELSE UNCHANGED <<game, capturedByWhite, capturedByBlack>>

\* What makeMove sets after attempt a: on a move the copy becomes the game,
\* the capture is booked and the selection is cleared; otherwise (null or a
\* throw) nothing is set.
Commit(a) ==
  IF a.ok
    THEN /\ game' = a.gameCopy
         /\ HandleCapture(a.move)
         /\ selectedSquare' = NoSquare
         /\ validMoves' = {}
    ELSE UNCHANGED <<game, capturedByWhite, capturedByBlack,
                     selectedSquare, validMoves>>

\* makeMove(moveData) of the render that held cg.
MakeMove(cg, moveData) ==
  \E success \in {Attempt(cg, moveData)} : Commit(success)

\* resetGame without its two setCapturedBy... calls.
ResetGameKeepingLedgers ==
  /\ game' = NewChess
  /\ selectedSquare' = NoSquare
  /\ validMoves' = {}
  /\ aiAnalysis' = NullText
  /\ last' = Ran("resetGame", NoData, TRUE)
  /\ UNCHANGED <<capturedByWhite, capturedByBlack, isAiThinking, tasks>>

\* resetGame()
ResetGame ==
  /\ game' = NewChess
  /\ selectedSquare' = NoSquare
  /\ validMoves' = {}
  /\ aiAnalysis' = NullText
  /\ capturedByWhite' = <<>>
  /\ capturedByBlack' = <<>>
  /\ last' = Ran("resetGame", NoData, TRUE)
  /\ UNCHANGED <<isAiThinking, tasks>>

\* The selection of onSquareClick without its test of the side to move.
SelectAnyPiece(square) ==
  IF Get(game, square) # NoPiece
    THEN /\ selectedSquare' = square
         /\ validMoves' = {m.to : m \in MovesFrom(game, square)}
    ELSE /\ selectedSquare' = NoSquare
         /\ validMoves' = {}

\* The last lines of onSquareClick: the square and its legal destinations
\* are selected when it holds a piece of the side to move, nothing otherwise.
Select(square) ==
  IF Get(game, square) # NoPiece /\ Get(game, square).color = game.turn
    THEN /\ selectedSquare' = square
         /\ validMoves' = {m.to : m \in MovesFrom(game, square)}
    ELSE /\ selectedSquare' = NoSquare
         /\ validMoves' = {}

\* onSquareClick past its guard with another square selected: attempt a is
\* the move from the selected square, and the click selects when it failed.
MoveOrSelect(square, a) ==
  IF a.ok
    THEN /\ Commit(a)
         /\ last' = Ran("onSquareClick", NoData, TRUE)
    ELSE /\ Select(square)
         /\ last' = Ran("onSquareClick", NoData, FALSE)
         /\ UNCHANGED <<game, capturedByWhite, capturedByBlack>>

\* onSquareClick without the game.isGameOver() test of its first line.
OnSquareClickAfterEnd(square) ==
  /\ UNCHANGED <<isAiThinking, aiAnalysis, tasks>>
  /\ IF isAiThinking
       THEN /\ last' = Ran("onSquareClick", NoData, FALSE)
            /\ UNCHANGED <<game, selectedSquare, validMoves,
                           capturedByWhite, capturedByBlack>>
     ELSE IF selectedSquare # NoSquare /\ selectedSquare = square
       THEN /\ selectedSquare' = NoSquare
            /\ validMoves' = {}
            /\ last' = Ran("onSquareClick", NoData, FALSE)
            /\ UNCHANGED <<game, capturedByWhite, capturedByBlack>>
     ELSE MoveOrSelect(square,
                       IF selectedSquare # NoSquare
                         THEN Attempt(game, ObjMove(selectedSquare, square, "q"))
                         ELSE [ok |-> FALSE, move |-> NoMove, gameCopy |-> game])

\* onSquareClick(square)
OnSquareClick(square) ==
  /\ UNCHANGED <<isAiThinking, aiAnalysis, tasks>>
  /\ IF isAiThinking \/ IsGameOver(game)
       THEN /\ last' = Ran("onSquareClick", NoData, FALSE)
            /\ UNCHANGED <<game, selectedSquare, validMoves,
                           capturedByWhite, capturedByBlack>>
     ELSE IF selectedSquare # NoSquare /\ selectedSquare = square
       THEN /\ selectedSquare' = NoSquare
            /\ validMoves' = {}
            /\ last' = Ran("onSquareClick", NoData, FALSE)
            /\ UNCHANGED <<game, capturedByWhite, capturedByBlack>>
     ELSE MoveOrSelect(square,
                       IF selectedSquare # NoSquare
                         THEN Attempt(game, ObjMove(selectedSquare, square, "q"))
                         ELSE [ok |-> FALSE, move |-> NoMove, gameCopy |-> game])

\* undoMove()
UndoMove ==
  /\ game' = Undo(Load(Fen(game)))
  /\ aiAnalysis' = NullText
  /\ last' = Ran("undoMove", NoData, History(game) # <<>>)
  /\ UNCHANGED <<selectedSquare, validMoves, isAiThinking,
                 capturedByWhite, capturedByBlack, tasks>>

\* makeMove(moveData) with its result noted.
Noted(moveData, a) ==
  /\ Commit(a)
  /\ last' = Ran("makeMove", moveData, a.ok)

\* makeMove(moveData) called on its own, outside the handlers.
CallMakeMove(moveData) ==
  /\ Noted(moveData, Attempt(game, moveData))
  /\ UNCHANGED <<isAiThinking, aiAnalysis, tasks>>

\* ------------------------------------------------------------- AI round trip

\* What the remote service sends back: a network or service failure, text
\* that is not JSON, or a JSON object (either field may be absent).
Payload(kind, move, explanation) ==
  [kind |-> kind, move |-> move, explanation |-> explanation]

UndefinedText == "undefined"

\* getBestMove(fen, history): the awaited call rejects, the text fails to
\* parse and the sentinel is returned, or the parsed object is returned as
\* it is.
GetBestMove(payload) ==
  CASE payload.kind = "neterr" ->
         [threw |-> TRUE, move |-> MissingField, explanation |-> UndefinedText]
    [] payload.kind = "nonjson" ->
         [threw |-> FALSE, move |-> EmptyText, explanation |-> ApologyText]
    [] OTHER ->
         [threw |-> FALSE, move |-> payload.move,
          explanation |-> payload.explanation]

\* if (aiResponse.move) taking the empty string for a move.
TruthyWhenEmpty(move) == move.kind \notin {"missing", "none"}

\* if (aiResponse.move): a present, non-empty string.
Truthy(move) == move.kind \notin {"empty", "missing", "none"}

Without(seq, i) == SubSeq(seq, 1, i - 1) \o SubSeq(seq, i + 1, Len(seq))

\* The guard of triggerAiMove without its isAiThinking test.
GuardedByGameOverOnly == IsGameOver(game)

\* The first line of triggerAiMove: whether it returns at once.
Guarded == isAiThinking \/ IsGameOver(game)

\* triggerAiMove() past its guard, up to its await: the two state sets and
\* the request, which keeps the game of the render it was called in.
StartRequest ==
  /\ isAiThinking' = TRUE
  /\ aiAnalysis' = AnalyzingText
  /\ tasks' = Append(tasks, [pc |-> "await", game |-> game, move |-> NoData])
  /\ last' = Ran("triggerAiMove", NoData, TRUE)

\* triggerAiMove()
TriggerAiMove ==
  /\ UNCHANGED <<game, selectedSquare, validMoves, capturedByWhite,
                 capturedByBlack>>
  /\ IF Guarded
       THEN /\ last' = Ran("triggerAiMove", NoData, FALSE)
            /\ UNCHANGED <<isAiThinking, aiAnalysis, tasks>>
       ELSE StartRequest

\* triggerAiMove() from its await on, without its catch block: a rejected
\* call ends it with nothing set.
ResumeWithoutCatch(i, aiResponse) ==
  IF aiResponse.threw
    THEN /\ tasks' = Without(tasks, i)
         /\ last' = Ran("aiResponse", NoData, FALSE)
         /\ UNCHANGED <<isAiThinking, aiAnalysis>>
  ELSE IF Truthy(aiResponse.move)
    THEN /\ aiAnalysis' = aiResponse.explanation
         /\ tasks' = [tasks EXCEPT ![i] = [pc |-> "timer",
                                           game |-> tasks[i].game,
                                           move |-> aiResponse.move]]
         /\ last' = Ran("aiResponse", NoData, TRUE)
         /\ UNCHANGED isAiThinking
  ELSE /\ isAiThinking' = FALSE
       /\ aiAnalysis' = NoMoveText
       /\ tasks' = Without(tasks, i)
       /\ last' = Ran("aiResponse", NoData, FALSE)

\* triggerAiMove() from its await on, its catch block lacking
\* setIsAiThinking(false).
ResumeStuck(i, aiResponse) ==
  IF aiResponse.threw
    THEN /\ aiAnalysis' = ErrorText
         /\ tasks' = Without(tasks, i)
         /\ last' = Ran("aiResponse", NoData, FALSE)
         /\ UNCHANGED isAiThinking
  ELSE IF Truthy(aiResponse.move)
    THEN /\ aiAnalysis' = aiResponse.explanation
         /\ tasks' = [tasks EXCEPT ![i] = [pc |-> "timer",
                                           game |-> tasks[i].game,
                                           move |-> aiResponse.move]]
         /\ last' = Ran("aiResponse", NoData, TRUE)
         /\ UNCHANGED isAiThinking
  ELSE /\ isAiThinking' = FALSE
       /\ aiAnalysis' = NoMoveText
       /\ tasks' = Without(tasks, i)
       /\ last' = Ran("aiResponse", NoData, FALSE)

\* triggerAiMove() from its await on, given what getBestMove did.
Resume(i, aiResponse) ==
  IF aiResponse.threw
    THEN /\ isAiThinking' = FALSE
         /\ aiAnalysis' = ErrorText
         /\ tasks' = Without(tasks, i)
         /\ last' = Ran("aiResponse", NoData, FALSE)
  ELSE IF Truthy(aiResponse.move)
    THEN /\ aiAnalysis' = aiResponse.explanation
         /\ tasks' = [tasks EXCEPT ![i] = [pc |-> "timer",
                                           game |-> tasks[i].game,
                                           move |-> aiResponse.move]]
         /\ last' = Ran("aiResponse", NoData, TRUE)
         /\ UNCHANGED isAiThinking
  ELSE /\ isAiThinking' = FALSE
       /\ aiAnalysis' = NoMoveText
       /\ tasks' = Without(tasks, i)
       /\ last' = Ran("aiResponse", NoData, FALSE)

\* The service answers request i: triggerAiMove() runs from its await to the
\* timer or to its end.
AiRespond(i, payload) ==
  /\ i \in 1 .. Len(tasks)
  /\ tasks[i].pc = "await"
  /\ UNCHANGED <<game, selectedSquare, validMoves, capturedByWhite,
                 capturedByBlack>>
  /\ Resume(i, GetBestMove(payload))

\* The fallback of the timer callback on the legal moves ms of its game.
Fallback(cg, ms, random) ==
  /\ aiAnalysis' = FallbackText
  /\ IF ms # {}
       THEN \E moveData \in {RandomOf(ms, random)} : MakeMove(cg, moveData)
       ELSE UNCHANGED <<game, capturedByWhite, capturedByBlack,
                        selectedSquare, validMoves>>

\* The body of the timer callback, a being its first makeMove.
Callback(cg, a, random) ==
  /\ last' = Ran("aiTimer", NoData, a.ok)
  /\ IF a.ok
       THEN /\ Commit(a)
            /\ UNCHANGED aiAnalysis
       ELSE \E randomMoves \in {Moves(cg)} : Fallback(cg, randomMoves, random)

\* The setTimeout callback of request i fires.
AiTimer(i, random) ==
  /\ i \in 1 .. Len(tasks)
  /\ tasks[i].pc = "timer"
  /\ isAiThinking' = FALSE
  /\ tasks' = Without(tasks, i)
  /\ \E success \in {Attempt(tasks[i].game, tasks[i].move)} :
       Callback(tasks[i].game, success, random)

\* ------------------------------------------------------------------- inputs

\* The squares clicked: f2 f4 g2 g4 and e7 e5 d8 h4.
ClickSquares ==
  {Sq(6, 2), Sq(6, 4), Sq(7, 2), Sq(7, 4),
   Sq(5, 7), Sq(5, 5), Sq(4, 8), Sq(8, 4)}

\* The move strings the service answers with: "f4" and "Zz9".
AiMoves ==
  {SanText("p", NoSquare, NoSquare, FALSE, Sq(6, 4), "-"), BadText}

Payloads ==
  {Payload("neterr", MissingField, UndefinedText),
   Payload("nonjson", MissingField, UndefinedText),
   Payload("json", EmptyText, "no idea"),
   Payload("json", MissingField, "central control")}
  \cup {Payload("json", m, "central control") : m \in AiMoves}

\* Math.random(), in hundredths.
RandomDraws == {50}

\* What makeMove is called with on its own: "Zz9", {from: "e7", to: "e5",
\* promotion: "q"} and {from: "f2", to: "f5", promotion: "q"}.
DirectData ==
  {BadText, ObjMove(Sq(5, 7), Sq(5, 5), "q"),
   ObjMove(Sq(6, 2), Sq(6, 5), "q")}

\* The knights' squares g1 f3 g8 f6, and the knight moves between them as
\* the strings "Nf3", "Ng1", "Nf6" and "Ng8".
ShuffleSquares == {Sq(7, 1), Sq(6, 3), Sq(7, 8), Sq(6, 6)}

ShuffleData ==
  {SanText("n", NoSquare, NoSquare, FALSE, s, "-") : s \in ShuffleSquares}

\* ------------------------------------------------------------ specification

Next ==
  \/ \E square \in ClickSquares :
       OnSquareClick(square) /\ Ply(game') <= MaxPly
  \/ ResetGame
  \/ UndoMove
  \/ TriggerAiMove /\ (Ply(game) < MaxPly \/ tasks' = tasks)
  \/ \E i \in 1 .. Len(tasks), payload \in Payloads : AiRespond(i, payload)
  \/ \E i \in 1 .. Len(tasks), random \in RandomDraws : AiTimer(i, random)

Spec == Init /\ [][Next]_vars

\* The session with makeMove also called on its own.
DirectNext ==
  \/ Next
  \/ \E moveData \in DirectData :
       CallMakeMove(moveData) /\ Ply(game') <= MaxPly

SpecDirect == Init /\ [][DirectNext]_vars

\* A timer callback that is due runs: the step of AiTimer as it shows on
\* tasks.
TimerFires ==
  \E i \in 1 .. Len(tasks) :
    tasks[i].pc = "timer" /\ tasks' = Without(tasks, i)

\* The awaited service call settles (it answers or it fails), and a timer
\* that was set fires.
Fairness ==
  /\ WF_vars(\E i \in 1 .. Len(tasks), payload \in Payloads :
               AiRespond(i, payload))
  /\ WF_tasks(TimerFires)

LiveSpec == Spec /\ Fairness

\* A game of knight moves only, by clicks and by makeMove called on its own.
ShuffleNext ==
  \/ \E square \in ShuffleSquares : OnSquareClick(square)
  \/ \E moveData \in ShuffleData :
       CallMakeMove(moveData) /\ Ply(game') <= MaxShufflePly

DrawSpec == Init /\ [][ShuffleNext]_vars

\* ------------------------------------------------------------------- claims

\* Steps in which a move was accepted: the game changed in a click, in the
\* timer callback or in a call of makeMove.
MoveOps == {"onSquareClick", "aiTimer", "makeMove"}

\* C1: whenever makeMove is called with a move specification that names no
\* legal move of the position (an illegal move or an unparseable string), it
\* returns false and leaves the game (position and history), both capture
\* ledgers, the selected square and the valid moves as they were; a click
\* whose move attempt fails leaves the game and the ledgers as they were.
C1_FailedMoveChangesNothing ==
  [][/\ (last'.op = "makeMove" /\ Matching(game, last'.arg) = {})
          => /\ ~last'.ok
             /\ UNCHANGED <<game, capturedByWhite, capturedByBlack,
                            selectedSquare, validMoves>>
     /\ (last'.op = "onSquareClick" /\ ~last'.ok)
          => UNCHANGED <<game, capturedByWhite, capturedByBlack>>]_vars

\* makeMove has just failed on an illegal move with a square selected.
C1_Witness ==
  /\ last.op = "makeMove"
  /\ ~last.ok
  /\ last.arg.kind = "obj"
  /\ selectedSquare # NoSquare

\* C2: an undo after an accepted move puts the position back to the one that
\* stood before that move and takes the move off the history.
C2_UndoRestoresPosition ==
  [][(last'.op = "undoMove" /\ game.hist # <<>>)
       => /\ Fen(game') = game.hist[Len(game.hist)].prev
          /\ Len(History(game')) = Len(History(game)) - 1]_vars

\* C3: every accepted move makes the history one entry longer and keeps the
\* entries it had.
C3_HistoryAppends ==
  [][(last'.op \in MoveOps /\ game' # game)
       => /\ Len(History(game')) = Len(History(game)) + 1
          /\ SubSeq(History(game'), 1, Len(History(game))) = History(game)]_vars

\* C4: at most one AI request is outstanding at any time, and a trigger
\* while the AI is thinking returns at once without issuing a request.
C4_OneRequest ==
  /\ [](Len(tasks) <= 1)
  /\ [][(isAiThinking /\ last'.op = "triggerAiMove")
          => (tasks' = tasks /\ ~last'.ok)]_vars

\* A trigger has just been refused while a request was outstanding.
C4_Witness ==
  /\ last.op = "triggerAiMove"
  /\ ~last.ok
  /\ isAiThinking
  /\ Len(tasks) = 1

\* C5: once the thinking flag is set it is cleared again, whether the
\* service fails, answers without a move, or answers with a move and the
\* timer fires (the service answering and the timer firing being assumed).
C5_ThinkingEnds == isAiThinking ~> ~isAiThinking

\* A request that failed or gave no move has just cleared the flag.
C5_Witness ==
  /\ last.op = "aiResponse"
  /\ ~last.ok
  /\ ~isAiThinking
  /\ aiAnalysis \in {ErrorText, NoMoveText}

\* C6: when the timer fires with a suggestion that names no legal move of
\* the current position, exactly one move legal in the current position is
\* made and the analysis text is the fallback notice.
C6_IllegalSuggestionFallsBack ==
  [][(last'.op = "aiTimer" /\ Matching(game, tasks[1].move) = {})
       => /\ aiAnalysis' = FallbackText
          /\ \E m \in Moves(game) : Fen(game') = Fen(Play(game, m))]_vars

\* C7: when the timer fires with a suggestion that names a legal move of the
\* current position, that move is made on the current position, the analysis
\* text is the explanation that came with it, and the thinking flag is off.
C7_LegalSuggestionCommitted ==
  [][(last'.op = "aiTimer" /\ Matching(game, tasks[1].move) # {})
       => /\ \E m \in Matching(game, tasks[1].move) :
               Fen(game') = Fen(Play(game, m))
          /\ \E payload \in Payloads :
               payload.move = tasks[1].move /\ aiAnalysis' = payload.explanation
          /\ ~isAiThinking']_vars

\* The move an accepted move left as the last one of the game.
LastMove(g) == g.hist[Len(g.hist)].move

\* C8: an accepted move that captured appends exactly one piece, of the
\* captured type and of the opponent's colour, to the ledger of the side
\* that moved and leaves the other ledger alone; an accepted move that did
\* not capture leaves both ledgers alone.
C8_CaptureBooked ==
  [][(last'.op \in MoveOps /\ game' # game)
       => IF LastMove(game').captured = "-"
            THEN UNCHANGED <<capturedByWhite, capturedByBlack>>
          ELSE IF LastMove(game').color = "w"
            THEN /\ capturedByWhite' =
                      Append(capturedByWhite, Pc(LastMove(game').captured, "b"))
                 /\ UNCHANGED capturedByBlack
          ELSE /\ capturedByBlack' =
                    Append(capturedByBlack, Pc(LastMove(game').captured, "w"))
               /\ UNCHANGED capturedByWhite]_vars

\* A capture by White has just been made and booked.
C8_Witness ==
  /\ last.op = "onSquareClick"
  /\ last.ok
  /\ game.hist # <<>>
  /\ LastMove(game).captured = "p"
  /\ LastMove(game).color = "w"
  /\ capturedByWhite = <<Pc("p", "b")>>

\* C9: makeMove called on a position where the game is over (checkmate,
\* stalemate or any draw) returns false and changes nothing.
C9_NoMoveWhenGameOver ==
  [][(last'.op = "makeMove" /\ IsGameOver(game))
       => (~last'.ok /\ UNCHANGED app)]_vars

\* C10: right after a reset the game is the starting position with an empty
\* history, nothing is selected, there are no valid moves, both capture
\* ledgers are empty and there is no analysis text.
C10_ResetClears ==
  last.op = "resetGame"
    => /\ Fen(game) = Fen(NewChess)
       /\ History(game) = <<>>
       /\ selectedSquare = NoSquare
       /\ validMoves = {}
       /\ capturedByWhite = <<>>
       /\ capturedByBlack = <<>>
       /\ aiAnalysis = NullText

\* A reset has just run while a request was outstanding.
C10_Witness ==
  /\ last.op = "resetGame"
  /\ isAiThinking
  /\ Len(tasks) = 1

\* C11: a square is selected only when it holds a piece of the side to
\* move in the current position, whatever clicks, moves, undos, resets and
\* AI round trips came before.
C11_SelectionIsOwnPiece ==
  selectedSquare # NoSquare
    => /\ Get(game, selectedSquare) # NoPiece
       /\ Get(game, selectedSquare).color = game.turn

\* A black piece is selected after a move, an undo or AI round trip having
\* run since.
C11_Witness ==
  /\ selectedSquare # NoSquare
  /\ game.turn = "b"
  /\ last.op \in {"undoMove", "aiResponse"}

\* A payload that is not JSON, or JSON without its move or its explanation.
Malformed(payload) ==
  \/ payload.kind = "nonjson"
  \/ /\ payload.kind = "json"
     /\ (payload.move = MissingField \/ payload.explanation = UndefinedText)

\* C12: while a request awaits the service, every malformed payload the
\* service can send makes getBestMove return the sentinel (the empty move
\* with the apology) without throwing.
C12_MalformedGivesSentinel ==
  \A i \in 1 .. Len(tasks) :
    tasks[i].pc = "await"
      => \A payload \in Payloads :
           Malformed(payload)
             => GetBestMove(payload) =
                  [threw |-> FALSE, move |-> EmptyText,
                   explanation |-> ApologyText]

\* C13: makeMove called with a move legal in the current position returns
\* true and the game becomes the engine's result of that move on the current
\* position; a click that makes a move makes a legal move from the selected
\* square on the current position.
C13_LegalMoveApplied ==
  [][/\ (last'.op = "makeMove" /\ Matching(game, last'.arg) # {})
          => /\ last'.ok
             /\ \E m \in Matching(game, last'.arg) :
                  Fen(game') = Fen(Play(game, m))
     /\ (last'.op = "onSquareClick" /\ last'.ok)
          => \E m \in MovesFrom(game, selectedSquare) :
               Fen(game') = Fen(Play(game, m))]_vars

\* makeMove has just made Black's move.
C13_Witness ==
  /\ last.op = "makeMove"
  /\ last.ok
  /\ game.turn = "w"
  /\ game.hist # <<>>

\* C14: whenever the timer callback changes the game, the new position is
\* the result of a legal move on the position that was current just before
\* the callback ran, so a reset made while the request was in flight stays.
C14_CommitOnCurrentPosition ==
  [][(last'.op = "aiTimer" /\ game' # game)
       => \E m \in Moves(game) : Fen(game') = Fen(Play(game, m))]_vars

\* C15: while the game is over or the AI is thinking, a click and an AI
\* trigger change nothing: game, ledgers, selection, valid moves, analysis
\* text and thinking flag stay as they are and no request is issued.
C15_Gated ==
  [][(last'.op \in {"onSquareClick", "triggerAiMove"}
        /\ (isAiThinking \/ IsGameOver(game)))
       => (~last'.ok /\ UNCHANGED <<app, tasks>>)]_vars

\* A click has just been ignored on a checkmate position with no request
\* outstanding.
C15_Witness ==
  /\ last.op = "onSquareClick"
  /\ ~last.ok
  /\ ~isAiThinking
  /\ IsCheckmate(game)

\* C16: undoMove called with an empty history changes neither the game, the
\* ledgers, the selection, the valid moves nor the analysis text.
C16_UndoOnEmptyHistory ==
  [][(last'.op = "undoMove" /\ History(game) = <<>>)
       => UNCHANGED <<game, capturedByWhite, capturedByBlack,
                      selectedSquare, validMoves, aiAnalysis>>]_vars

\* C17: when the service call of the outstanding request fails, the game
\* and both ledgers stay as they are, the analysis text becomes the error
\* notice, the thinking flag is cleared and the call of triggerAiMove ends
\* there.
C17_ServiceFailureHandled ==
  [][\A payload \in Payloads :
       (payload.kind = "neterr" /\ AiRespond(1, payload))
         => /\ UNCHANGED <<game, capturedByWhite, capturedByBlack>>
            /\ aiAnalysis' = ErrorText
            /\ ~isAiThinking'
            /\ tasks' = <<>>]_vars

\* A failed service call has just been handled after moves were made.
C17_Witness ==
  /\ last.op = "aiResponse"
  /\ aiAnalysis = ErrorText
  /\ ~isAiThinking
  /\ tasks = <<>>
  /\ game.hist # <<>>

\* C18: when getBestMove returns an empty move string, no move is made and
\* none is scheduled (game and ledgers stay as they are, no timer is set),
\* the analysis text becomes the no-move notice and the thinking flag is
\* cleared.
C18_EmptyMoveCommitsNothing ==
  [][\A payload \in Payloads :
       (/\ ~GetBestMove(payload).threw
        /\ GetBestMove(payload).move = EmptyText
        /\ AiRespond(1, payload))
         => /\ UNCHANGED <<game, capturedByWhite, capturedByBlack>>
            /\ aiAnalysis' = NoMoveText
            /\ ~isAiThinking'
            /\ tasks' = <<>>]_vars

\* An answer without a move has just been handled after moves were made.
C18_Witness ==
  /\ last.op = "aiResponse"
  /\ aiAnalysis = NoMoveText
  /\ ~isAiThinking
  /\ tasks = <<>>
  /\ game.hist # <<>>

\* C19: the valid moves are the destination squares of the legal moves from
\* the selected square in the current position, and there are none when no
\* square is selected.
C19_ValidMovesOfSelection ==
  IF selectedSquare = NoSquare
    THEN validMoves = {}
    ELSE validMoves = {m.to : m \in MovesFrom(game, selectedSquare)}

\* A square with legal moves is selected after the game has moved on.
C19_Witness ==
  /\ selectedSquare # NoSquare
  /\ validMoves # {}
  /\ Ply(game) >= 2

\* The pieces on the board of g.
Pieces(g) == {s \in Squares : g.board[s] # NoPiece}

\* C20: the two ledgers together hold as many pieces as are missing from
\* the board: their lengths add up to 32 less the pieces of the position.
C20_LedgersMatchBoard ==
  Len(capturedByWhite) + Len(capturedByBlack) = 32 - Cardinality(Pieces(game))

====
